---- MODULE Spec2Model ----
(***************************************************************************)
(* Rating engine (TennisEloRatingSystem) and edge engine (BettingService,  *)
(* BettingEdge, ValueBet) of the tennis predictions repository.            *)
(*                                                                         *)
(* Number representation (the code computes in IEEE doubles):              *)
(*   ratings        integers, RS units per Elo point                       *)
(*   probabilities  integers, PS units make probability 1                  *)
(*   factors        integers, FS units make factor 1                       *)
(*   dates          month index year*12+month (the only part of a date     *)
(*                  that _apply_time_decay reads)                          *)
(*   multipliers    tenths (12 is 1.2)                                     *)
(* Products are rounded toward zero where the code rounds to nearest.      *)
(***************************************************************************)
EXTENDS Integers, Sequences, FiniteSets, TLC

RS == 10^1
PS == 10^5
FS == 10^4

\* ------------------------------------------------------------------ bounds
MaxNow == 4        \* wall-clock months 0..MaxNow
MaxMatches == 2    \* update_ratings calls per run
MaxDate == 1       \* match records carry dates 0..MaxDate
MaxCalls == 2      \* betting-service calls per run
MaxFeed == 2       \* matches in one answer of the odds provider

\* ------------------------------------------------------- program constants
DEFAULT_RATING == 1500
BASE_K_FACTOR == 32
DEFAULT_SURFACE_ADVANTAGE == 50
MONTHLY_DECAY_RATE == 15          \* 0.015, per mille
MIN_RATING_AFTER_DECAY == 1200
DECAY_GRACE_MONTHS == 3
ELO_DIVISOR == 400
STRONG_BET_THRESHOLD == 10
BET_THRESHOLD == 5
KELLY_FRACTION == 25              \* 0.25, per cent
WINDOW_HOURS == 24

Players == {"a", "b", "c"}
Surfaces == {"hard", "clay"}
NoSurface == "none"
NoDate == 0 - 1
NoPrice == 0 - 1

\* A winner_score argument: None, a value that is no string, or a string. A
\* string is held as .strip().split() leaves it: a sequence of tokens, each
\* token the sequence of its parts after split('-'); a part is the integer
\* int() reads, or NotInt when int() raises ValueError. "" and "  " are both
\* the empty sequence (the code returns 1.0 for each).
NotInt == 0 - 1
NoScore == [kind |-> "none", sets |-> <<>>]
WrongType == [kind |-> "nonstring", sets |-> <<>>]
Str(sets) == [kind |-> "str", sets |-> sets]
W == <<6, 4>>
L == <<3, 6>>
ScoreInputs == {NoScore, Str(<<W, W>>), Str(<<W, L, W>>)}

\* ------------------------------------------------------------- arithmetic
TruncDiv(a, b) == IF a >= 0 THEN a \div b ELSE -((-a) \div b)

Max(a, b) == IF a >= b THEN a ELSE b

\* 10^(k/16) in FS units, k = 0..16
Pow10Table ==
    <<10000, 11548, 13335, 15399, 17783, 20535, 23714, 27384, 31623,
      36517, 42170, 48697, 56234, 64938, 74989, 86596, 100000>>

\* 10 ** (d / 400) in FS units, d a rating difference in rating units;
\* linear between the table's points.
Pow10(d) ==
    LET period == ELO_DIVISOR * RS
        step == period \div 16
        q == d \div period
        r == d % period
        k == r \div step
        f == r % step
        lo == Pow10Table[k + 1]
        hi == Pow10Table[k + 2]
        m == lo + ((hi - lo) * f) \div step
    IN  IF q >= 0 THEN m * 10^q ELSE m \div 10^(-q)

\* _calculate_expected_score
_calculate_expected_score(rating_a, rating_b) ==
    (PS * FS) \div (FS + Pow10(rating_b - rating_a))

\* (1 - MONTHLY_DECAY_RATE) ** n in FS units
RECURSIVE DecayFactor(_)
DecayFactor(n) ==
    IF n = 0 THEN FS
    ELSE (DecayFactor(n - 1) * (1000 - MONTHLY_DECAY_RATE)) \div 1000

\* _apply_time_decay without the floor
_apply_time_decay_unfloored(rating, last_match_date, clock) ==
    LET months_inactive == clock - last_match_date
    IN  IF months_inactive <= DECAY_GRACE_MONTHS THEN rating
        ELSE (rating * DecayFactor(months_inactive - DECAY_GRACE_MONTHS)) \div FS

\* _apply_time_decay, with datetime.now() passed as `clock`
_apply_time_decay(rating, last_match_date, clock) ==
    LET months_inactive == clock - last_match_date
    IN  IF months_inactive <= DECAY_GRACE_MONTHS THEN rating
        ELSE Max((rating * DecayFactor(months_inactive - DECAY_GRACE_MONTHS)) \div FS,
                 MIN_RATING_AFTER_DECAY * RS)

\* ------------------------------------------------------------ rating state
\* rt: player -> (key -> rating), keys "overall" and surfaces (self._ratings)
\* lm: player -> month (self._last_match_dates)

\* the stored rating get_rating resolves to, before decay
BaseRating(rt, player, surface) ==
    IF surface # NoSurface /\ surface \in DOMAIN rt[player] THEN rt[player][surface]
    ELSE IF "overall" \in DOMAIN rt[player] THEN rt[player]["overall"]
    ELSE DEFAULT_RATING * RS

\* get_rating
get_rating(rt, lm, player, surface, clock) ==
    IF player \notin DOMAIN rt THEN DEFAULT_RATING * RS
    ELSE IF player \in DOMAIN lm
         THEN _apply_time_decay(BaseRating(rt, player, surface), lm[player], clock)
         ELSE BaseRating(rt, player, surface)

\* _calculate_smart_initial_rating
_calculate_smart_initial_rating(opponent_rating) ==
    IF opponent_rating >= 2200 * RS THEN 1900 * RS
    ELSE IF opponent_rating >= 1900 * RS THEN 1700 * RS
    ELSE IF opponent_rating >= 1700 * RS THEN 1600 * RS
    ELSE IF opponent_rating >= 1600 * RS THEN 1550 * RS
    ELSE DEFAULT_RATING * RS

\* int(part) succeeds
IsInt(part) == part # NotInt

\* the sets the loop of _calculate_sets_multiplier counts for the winner
RECURSIVE SetsWon(_)
SetsWon(sets) ==
    IF sets = <<>> THEN 0
    ELSE LET parts == Head(sets)
             won == /\ Len(parts) >= 2
                    /\ Len(parts) = 2
                    /\ IsInt(parts[1]) /\ IsInt(parts[2])
                    /\ parts[1] > parts[2]
         IN  (IF won THEN 1 ELSE 0) + SetsWon(Tail(sets))

\* _calculate_sets_multiplier, in tenths
_calculate_sets_multiplier(winner_score) ==
    IF winner_score.kind = "none" THEN 10
    ELSE IF winner_score.kind # "str" THEN 10
    ELSE LET sets_won == SetsWon(winner_score.sets)
         IN  IF sets_won = 2 THEN 12
             ELSE IF sets_won = 3 THEN 13
             ELSE 10

Put(f, k, v) == [x \in DOMAIN f \cup {k} |-> IF x = k THEN v ELSE f[x]]

\* variant: a player gets an entry for every surface
StoredOnEverySurface(entry, overall, surface, new_rating) ==
    [k \in DOMAIN entry \cup {"overall"} \cup Surfaces |->
        IF k = "overall" THEN overall
        ELSE IF k = surface THEN new_rating
        ELSE IF k \in DOMAIN entry THEN entry[k]
        ELSE overall]

\* the player's ratings after the update: the overall and the surface entry
Stored(entry, overall, surface, new_rating) ==
    Put(Put(entry, "overall", overall), surface, new_rating)

\* update_ratings: the state after the call and what it returned and computed
update_ratings(rt, lm, winner, loser, winner_score, surface, date, clock) ==
    LET match_date == IF date = NoDate THEN clock ELSE date
        lm1 == Put(Put(lm, winner, match_date), loser, match_date)
        is_winner_new == winner \notin DOMAIN rt
        is_loser_new == loser \notin DOMAIN rt
        initial_winner ==
            _calculate_smart_initial_rating(
                IF ~is_loser_new THEN get_rating(rt, lm1, loser, surface, clock)
                ELSE DEFAULT_RATING * RS)
        rt1 == IF is_winner_new
               THEN Put(rt, winner, [k \in {"overall"} |-> initial_winner])
               ELSE rt
        rating_winner == IF is_winner_new THEN initial_winner
                         ELSE get_rating(rt, lm1, winner, surface, clock)
        initial_loser ==
            _calculate_smart_initial_rating(
                IF ~is_winner_new THEN get_rating(rt1, lm1, winner, surface, clock)
                ELSE DEFAULT_RATING * RS)
        rt2 == IF is_loser_new
               THEN Put(rt1, loser, [k \in {"overall"} |-> initial_loser])
               ELSE rt1
        rating_loser == IF is_loser_new THEN initial_loser
                        ELSE get_rating(rt1, lm1, loser, surface, clock)
        sets_multiplier == _calculate_sets_multiplier(winner_score)
        expected_winner == _calculate_expected_score(rating_winner, rating_loser)
        expected_loser == PS - expected_winner
        k_adjusted == BASE_K_FACTOR * sets_multiplier
        change_winner == TruncDiv(k_adjusted * (PS - expected_winner) * RS, 10 * PS)
        change_loser == TruncDiv(k_adjusted * (0 - expected_loser) * RS, 10 * PS)
        new_rating_winner == rating_winner + change_winner
        new_rating_loser == rating_loser + change_loser
        ow == IF "overall" \in DOMAIN rt2[winner] THEN rt2[winner]["overall"]
              ELSE DEFAULT_RATING * RS
        ol == IF "overall" \in DOMAIN rt2[loser] THEN rt2[loser]["overall"]
              ELSE DEFAULT_RATING * RS
        rw == Stored(rt2[winner], ow + change_winner, surface, new_rating_winner)
        rl == Stored(rt2[loser], ol + change_loser, surface, new_rating_loser)
    IN  [ratings |-> Put(Put(rt2, winner, rw), loser, rl),
         last_match_dates |-> lm1,
         new_rating_winner |-> new_rating_winner,
         new_rating_loser |-> new_rating_loser,
         is_winner_new |-> is_winner_new,
         is_loser_new |-> is_loser_new,
         initial_winner |-> IF is_winner_new THEN initial_winner ELSE 0,
         initial_loser |-> IF is_loser_new THEN initial_loser ELSE 0,
         sets_multiplier |-> sets_multiplier,
         change_winner |-> change_winner,
         change_loser |-> change_loser]

\* variant: every player with an entry for the surface gets the bonus
SurfaceAdjustedEverySpecialist(rating1, rating2, player1_has_surface_rating, player2_has_surface_rating) ==
    LET bonus == (DEFAULT_SURFACE_ADVANTAGE * RS) \div 2
    IN  <<IF player1_has_surface_rating THEN rating1 + bonus ELSE rating1,
          IF player2_has_surface_rating THEN rating2 + bonus ELSE rating2>>

\* the surface specialization adjustment of predict_match: the two ratings
\* after the if / elif that adds surface_advantage * 0.5
SurfaceAdjusted(rating1, rating2, player1_has_surface_rating, player2_has_surface_rating) ==
    LET bonus == (DEFAULT_SURFACE_ADVANTAGE * RS) \div 2
    IN  IF player1_has_surface_rating /\ ~player2_has_surface_rating
        THEN <<rating1 + bonus, rating2>>
        ELSE IF player2_has_surface_rating /\ ~player1_has_surface_rating
        THEN <<rating1, rating2 + bonus>>
        ELSE <<rating1, rating2>>

\* expected1 and expected2 = 1 - expected1
Expected(r) ==
    <<_calculate_expected_score(r[1], r[2]), PS - _calculate_expected_score(r[1], r[2])>>

\* the tail of predict_match: the surface specialization adjustment and the
\* two expected scores
\* variant: the second probability is computed on its own, from the ratings
\* without the surface bonus
PredictFromUnadjusted(rating1, rating2, player1_has_surface_rating, player2_has_surface_rating) ==
    LET bonus == (DEFAULT_SURFACE_ADVANTAGE * RS) \div 2
        r1 == IF player1_has_surface_rating /\ ~player2_has_surface_rating
              THEN rating1 + bonus ELSE rating1
    IN  <<_calculate_expected_score(r1, rating2),
          _calculate_expected_score(rating2, rating1)>>

PredictFrom(rating1, rating2, player1_has_surface_rating, player2_has_surface_rating) ==
    Expected(SurfaceAdjusted(rating1, rating2, player1_has_surface_rating,
                             player2_has_surface_rating))

\* player in self._ratings and surface in self._ratings[player]
has_surface_rating(rt, player, surface) ==
    player \in DOMAIN rt /\ surface \in DOMAIN rt[player]

\* the two ratings predict_match computes the expected scores from
effective_ratings(rt, lm, player1, player2, surface, clock) ==
    SurfaceAdjusted(get_rating(rt, lm, player1, surface, clock),
                    get_rating(rt, lm, player2, surface, clock),
                    has_surface_rating(rt, player1, surface),
                    has_surface_rating(rt, player2, surface))

\* predict_match
predict_match(rt, lm, player1, player2, surface, clock) ==
    PredictFrom(get_rating(rt, lm, player1, surface, clock),
                get_rating(rt, lm, player2, surface, clock),
                has_surface_rating(rt, player1, surface),
                has_surface_rating(rt, player2, surface))

\* RatingService.predict_match: the MatchPrediction it builds
service_predict_match(rt, lm, player1, player2, surface, clock) ==
    [player1 |-> player1,
     player2 |-> player2,
     player1_win_probability |-> predict_match(rt, lm, player1, player2, surface, clock)[1],
     player2_win_probability |-> predict_match(rt, lm, player1, player2, surface, clock)[2],
     player1_rating |-> get_rating(rt, lm, player1, surface, clock),
     player2_rating |-> get_rating(rt, lm, player2, surface, clock),
     surface |-> surface,
     surface_adjustment |-> DEFAULT_SURFACE_ADVANTAGE * RS]

\* ------------------------------------------------------------- edge engine
\* odds: integers, OS units per 1.0 (decimal 2.00 is 200, American +150 is
\* 15000); edges: PS units per 1.0 of probability, so PctEdge units per
\* percentage point; expected values: PS * OS units per 1.0, so PctEV units
\* per percent.
OS == 10^2
PctEdge == PS \div 100
PctEV == (PS * OS) \div 100

\* StandardOddsConverter.decimal_to_probability raises ValueError
DecimalOddsInvalid(odds) == odds <= 0

\* StandardOddsConverter.decimal_to_probability, for odds it accepts
decimal_to_probability(odds) == (PS * OS) \div odds

\* variant: american_to_probability takes every number
AmericanOddsAlwaysValid(odds) == FALSE

\* StandardOddsConverter.american_to_probability raises ValueError
AmericanOddsInvalid(odds) == odds = 0

\* StandardOddsConverter.american_to_probability, for odds it accepts;
\* abs(odds) / (abs(odds) + 100) is computed as 1 - 100 / (abs(odds) + 100),
\* which keeps the products within 32 bits
american_to_probability(odds) ==
    IF odds > 0 THEN (PS * 100 * OS) \div (odds + 100 * OS)
    ELSE PS - (PS * 100 * OS) \div ((0 - odds) + 100 * OS)

\* StandardOddsConverter.probability_to_decimal and probability_to_american
\* raise ValueError
ProbabilityInvalid(probability) == ~(0 < probability /\ probability < PS)

\* StandardOddsConverter.probability_to_decimal, for a probability it accepts
probability_to_decimal(probability) == (PS * OS) \div probability

\* variant: the odds of a favourite are not negated
probability_to_american_unsigned(probability) ==
    IF 2 * probability >= PS
    THEN (100 * OS * probability) \div (PS - probability)
    ELSE (100 * OS * (PS - probability)) \div probability

\* StandardOddsConverter.probability_to_american, for a probability it accepts
probability_to_american(probability) ==
    IF 2 * probability >= PS
    THEN 0 - ((100 * OS * probability) \div (PS - probability))
    ELSE (100 * OS * (PS - probability)) \div probability

\* BettingEdge.from_probabilities
\* variant: the recommendation is decided by the probability edge
from_probabilities_by_edge(player, our_prob, bookie_prob, odds) ==
    LET prob_edge == our_prob - bookie_prob
        expected_value == our_prob * odds - PS * OS
    IN  [player |-> player,
         probability_edge |-> prob_edge,
         expected_value |-> expected_value,
         recommendation |->
            IF prob_edge >= STRONG_BET_THRESHOLD * PctEdge THEN "strong_bet"
            ELSE IF prob_edge >= BET_THRESHOLD * PctEdge THEN "bet"
            ELSE "pass"]

from_probabilities(player, our_prob, bookie_prob, odds) ==
    LET prob_edge == our_prob - bookie_prob
        expected_value == our_prob * odds - PS * OS
    IN  [player |-> player,
         probability_edge |-> prob_edge,
         expected_value |-> expected_value,
         recommendation |->
            IF expected_value >= STRONG_BET_THRESHOLD * PctEV THEN "strong_bet"
            ELSE IF expected_value >= BET_THRESHOLD * PctEV THEN "bet"
            ELSE "pass"]

\* BettingService.calculate_betting_edge raises (the converter's ValueError)
EdgeRaises(player1_odds, player2_odds, odds_format) ==
    IF odds_format = "decimal"
    THEN DecimalOddsInvalid(player1_odds) \/ DecimalOddsInvalid(player2_odds)
    ELSE AmericanOddsInvalid(player1_odds) \/ AmericanOddsInvalid(player2_odds)

\* the implied probability of a quote in the format of the call
ImpliedProbability(odds, odds_format) ==
    IF odds_format = "decimal" THEN decimal_to_probability(odds)
    ELSE american_to_probability(odds)

\* the two edges of calculate_betting_edge from the prediction pr
EdgesFrom(pr, player1, player2, player1_odds, player2_odds, odds_format) ==
    [player1 |-> from_probabilities(player1, pr[1],
                     ImpliedProbability(player1_odds, odds_format), player1_odds),
     player2 |-> from_probabilities(player2, pr[2],
                     ImpliedProbability(player2_odds, odds_format), player2_odds)]

\* BettingService.calculate_betting_edge, when it does not raise
calculate_betting_edge(rt, lm, clock, player1, player2, player1_odds, player2_odds, surface, odds_format) ==
    EdgesFrom(predict_match(rt, lm, player1, player2, surface, clock),
              player1, player2, player1_odds, player2_odds, odds_format)

\* BettingService._create_value_bet
_create_value_bet(match, bookmaker, player1_odds, player2_odds, edges, is_player1) ==
    LET selected_odds == IF is_player1 THEN player1_odds ELSE player2_odds
        selected_edge == IF is_player1 THEN edges.player1 ELSE edges.player2
    IN  [match_id |-> match.id,
         player1 |-> match.home_team,
         player2 |-> match.away_team,
         bet_on_player |-> selected_edge.player,
         is_player1_bet |-> is_player1,
         bookmaker |-> bookmaker.title,
         odds |-> selected_odds,
         odds_format |-> "decimal",
         our_probability |-> selected_edge.probability_edge
                             + decimal_to_probability(selected_odds),
         bookmaker_probability |-> decimal_to_probability(selected_odds),
         edge_percentage |-> selected_edge.probability_edge,
         expected_value_percentage |-> selected_edge.expected_value,
         commence_time |-> match.commence_time,
         surface |-> match.surface,
         tour |-> "atp"]

\* BettingService._extract_odds_from_market returns a pair (both outcomes of
\* the market are priced)
HasBothPrices(bookmaker) == bookmaker.price1 # NoPrice /\ bookmaker.price2 # NoPrice

\* the quotes of a bookmaker that _process_bookmaker evaluates
Evaluated(bookmaker) == bookmaker.key = "h2h" /\ HasBothPrices(bookmaker)

\* the loop of _calculate_and_filter_value_bets over edges.items()
\* variant: the second side is looked at only when the first one fails
SidesOverFirstOnly(match, bookmaker, min_edge, edges) ==
    IF edges.player1.probability_edge >= min_edge
    THEN <<_create_value_bet(match, bookmaker, bookmaker.price1, bookmaker.price2,
                             edges, TRUE)>>
    ELSE IF edges.player2.probability_edge >= min_edge
    THEN <<_create_value_bet(match, bookmaker, bookmaker.price1,
                             bookmaker.price2, edges, FALSE)>>
    ELSE <<>>

SidesOver(match, bookmaker, min_edge, edges) ==
    (IF edges.player1.probability_edge >= min_edge
     THEN <<_create_value_bet(match, bookmaker, bookmaker.price1, bookmaker.price2,
                              edges, TRUE)>>
     ELSE <<>>)
    \o (IF edges.player2.probability_edge >= min_edge
        THEN <<_create_value_bet(match, bookmaker, bookmaker.price1,
                                 bookmaker.price2, edges, FALSE)>>
        ELSE <<>>)

\* BettingService._calculate_and_filter_value_bets, when the edge does not raise
_calculate_and_filter_value_bets(rt, lm, clock, match, bookmaker, min_edge) ==
    SidesOver(match, bookmaker, min_edge,
              calculate_betting_edge(rt, lm, clock, match.home_team, match.away_team,
                                     bookmaker.price1, bookmaker.price2,
                                     match.surface, "decimal"))

\* the lists of a loop, joined in order (value_bets.extend(...))
RECURSIVE Concat(_)
Concat(lists) ==
    IF lists = <<>> THEN <<>> ELSE Head(lists) \o Concat(Tail(lists))

\* BettingService._extract_value_bets_from_match with _process_bookmaker, when
\* no edge raises
_extract_value_bets_from_match(rt, lm, clock, match, min_edge) ==
    Concat([j \in 1..Len(match.bookmakers) |->
                IF Evaluated(match.bookmakers[j])
                THEN _calculate_and_filter_value_bets(rt, lm, clock, match,
                                                      match.bookmakers[j], min_edge)
                ELSE <<>>])

\* BettingService._process_matches_for_value_bets, when no edge raises
_process_matches_for_value_bets(rt, lm, clock, matches, min_edge) ==
    Concat([i \in 1..Len(matches) |->
                _extract_value_bets_from_match(rt, lm, clock, matches[i], min_edge)])

\* some evaluated quote of the feed makes calculate_betting_edge raise
ProcessRaises(matches) ==
    \E i \in 1..Len(matches) : \E j \in 1..Len(matches[i].bookmakers) :
        LET bookmaker == matches[i].bookmakers[j]
        IN  /\ Evaluated(bookmaker)
            /\ EdgeRaises(bookmaker.price1, bookmaker.price2, "decimal")

\* the match key of _select_best_bet_per_match: f"{bet.player1}_{bet.player2}"
match_key(bet) == <<bet.player1, bet.player2>>

\* the strict comparison that replaces the current best bet of a key
\* variant: the bet of lower expected value replaces the current one
Worse(bet, current_best) ==
    bet.expected_value_percentage < current_best.expected_value_percentage

Better(bet, current_best) ==
    bet.expected_value_percentage > current_best.expected_value_percentage

\* best_bets_by_match after the loop over bets: key -> bet, with the keys in
\* insertion order (the order list(dict.values()) returns)
RECURSIVE BestByMatch(_, _, _)
BestByMatch(bets, keys, best) ==
    IF bets = <<>> THEN [keys |-> keys, best |-> best]
    ELSE LET bet == Head(bets)
             k == match_key(bet)
         IN  IF k \notin DOMAIN best
             THEN BestByMatch(Tail(bets), Append(keys, k), Put(best, k, bet))
             ELSE IF Better(bet, best[k])
                  THEN BestByMatch(Tail(bets), keys, Put(best, k, bet))
                  ELSE BestByMatch(Tail(bets), keys, best)

\* variant: the kept bets are returned in reverse order
_select_best_bet_per_match_reversed(bets) ==
    LET d == BestByMatch(bets, <<>>, [x \in {} |-> 0])
    IN  [i \in 1..Len(d.keys) |-> d.best[d.keys[Len(d.keys) + 1 - i]]]

\* BettingService._select_best_bet_per_match
_select_best_bet_per_match(bets) ==
    LET d == BestByMatch(bets, <<>>, [x \in {} |-> 0])
    IN  [i \in 1..Len(d.keys) |-> d.best[d.keys[i]]]

\* the filter of get_todays_value_bets; times are hours from the call's now
Upcoming(bet) == 0 <= bet.commence_time /\ bet.commence_time <= WINDOW_HOURS

InNext24h(bets) == SelectSeq(bets, Upcoming)

\* ValueBet.recommended_stake: None, a fraction of the bankroll in PS units,
\* or ZeroDivisionError
\* variant: only a negative edge gives no stake
recommended_stake_negative_only(vb) ==
    IF vb.edge_percentage < 0 THEN [kind |-> "none", stake |-> 0]
    ELSE LET b == vb.odds - OS
             p == vb.our_probability
             q == PS - p
         IN  IF b = 0 THEN [kind |-> "error", stake |-> 0]
             ELSE [kind |-> "value",
                   stake |-> Max(0, TruncDiv(TruncDiv(b * p - OS * q, b)
                                             * KELLY_FRACTION, 100))]

recommended_stake(vb) ==
    IF vb.edge_percentage <= 0 THEN [kind |-> "none", stake |-> 0]
    ELSE LET decimal_odds ==
                 IF vb.odds_format = "decimal" THEN vb.odds
                 ELSE IF vb.odds > 0 THEN OS + vb.odds \div 100
                 ELSE OS + (100 * OS * OS) \div (0 - vb.odds)
             b == decimal_odds - OS
             p == vb.our_probability
             q == PS - p
         IN  IF b = 0 \/ (vb.odds_format # "decimal" /\ vb.odds = 0)
             THEN [kind |-> "error", stake |-> 0]
             ELSE [kind |-> "value",
                   stake |-> Max(0, TruncDiv(TruncDiv(b * p - OS * q, b)
                                             * KELLY_FRACTION, 100))]

\* ------------------------------------------------------------ player names
\* the characters of the names used as player keys and as arguments
Chars(name) ==
    CASE name = "a" -> <<"a">>
      [] name = "A" -> <<"A">>
      [] name = " a " -> <<" ", "a", " ">>
      [] name = "b" -> <<"b">>
      [] name = "c" -> <<"c">>
      [] OTHER -> <<"z">>

upper(ch) ==
    CASE ch = "a" -> "A" [] ch = "b" -> "B" [] ch = "c" -> "C" [] ch = "z" -> "Z"
      [] OTHER -> ch

lower(ch) ==
    CASE ch = "A" -> "a" [] ch = "B" -> "b" [] ch = "C" -> "c" [] ch = "Z" -> "z"
      [] OTHER -> ch

\* str.strip()
RECURSIVE lstrip(_)
lstrip(chars) ==
    IF chars # <<>> /\ Head(chars) = " " THEN lstrip(Tail(chars)) ELSE chars

RECURSIVE rstrip(_)
rstrip(chars) ==
    IF chars # <<>> /\ chars[Len(chars)] = " "
    THEN rstrip(SubSeq(chars, 1, Len(chars) - 1))
    ELSE chars

str_strip(chars) == rstrip(lstrip(chars))

\* str.title(): a letter that starts a word in upper case, the others in lower
str_title(chars) ==
    [i \in 1..Len(chars) |->
        IF i = 1 \/ chars[i - 1] = " " THEN upper(chars[i]) ELSE lower(chars[i])]

\* normalize_player_name, on the characters of the name
normalize_player_name(chars) == str_title(str_strip(chars))

\* ------------------------------------------------------------- persistence
\* The ratings file is [kind, value]: kind "missing", "blank" (no content),
\* "garbage" (content json.loads rejects) or "json" with the parsed value.
\* A value is [type, items]: type "dict" with its items [player, data] in the
\* order of the file, or "list", "number", "null". The data of a player is
\* [type, has_rating, rating, surface_ratings, date]: type "number" (the
\* legacy scalar), "dict" (the structured record) or "string".

\* a rating that is not a number (a record or a string stored as 'overall')
NotANumber == 0 - 2

\* the ISO-8601 text of a date: its year and month fields
NoIso == [kind |-> "absent", year |-> 0, month |-> 0]
BadIso == [kind |-> "bad", year |-> 0, month |-> 0]
isoformat(d) ==
    [kind |-> "iso", year |-> 2024 + (d \div 12), month |-> (d % 12) + 1]
fromisoformat(text) == (text.year - 2024) * 12 + text.month - 1

Scalar(rating) ==
    [type |-> "number", has_rating |-> FALSE, rating |-> rating,
     surface_ratings |-> <<>>, date |-> NoIso]
Structured(has_rating, rating, surface_ratings, date) ==
    [type |-> "dict", has_rating |-> has_rating, rating |-> rating,
     surface_ratings |-> surface_ratings, date |-> date]
Text ==
    [type |-> "string", has_rating |-> FALSE, rating |-> 0,
     surface_ratings |-> <<>>, date |-> NoIso]

Item(player, data) == [player |-> player, data |-> data]
Dict(items) == [type |-> "dict", items |-> items]
Json(value) == [kind |-> "json", value |-> value]
NoFile == [kind |-> "missing", value |-> Dict(<<>>)]

\* variant: the last match date is not written
player_data_without_date(rt, lm, player) ==
    Structured(TRUE,
               IF "overall" \in DOMAIN rt[player] THEN rt[player]["overall"]
               ELSE DEFAULT_RATING * RS,
               [surface \in DOMAIN rt[player] \ {"overall"} |-> rt[player][surface]],
               NoIso)

\* player_data of save_ratings
player_data(rt, lm, player) ==
    Structured(TRUE,
               IF "overall" \in DOMAIN rt[player] THEN rt[player]["overall"]
               ELSE DEFAULT_RATING * RS,
               [surface \in DOMAIN rt[player] \ {"overall"} |-> rt[player][surface]],
               IF player \in DOMAIN lm THEN isoformat(lm[player]) ELSE NoIso)

RECURSIVE ratings_to_save(_, _, _)
ratings_to_save(rt, lm, players) ==
    IF players = {} THEN <<>>
    ELSE LET player == CHOOSE p \in players : TRUE
         IN  <<Item(player, player_data(rt, lm, player))>>
             \o ratings_to_save(rt, lm, players \ {player})

\* save_ratings and JsonRatingRepository.save: the file they leave
save_ratings(rt, lm) == Json(Dict(ratings_to_save(rt, lm, DOMAIN rt)))

\* JsonRatingRepository.load
load(file) ==
    IF file.kind \in {"missing", "blank"} THEN [kind |-> "ok", value |-> Dict(<<>>)]
    ELSE IF file.kind = "garbage"
    THEN [kind |-> "RepositoryError", value |-> Dict(<<>>)]
    ELSE [kind |-> "ok", value |-> file.value]

\* isinstance(ratings_data, dict) and ratings_data
NonEmptyDict(ratings_data) == ratings_data.type = "dict" /\ ratings_data.items # <<>>

\* the format test on the first key
IsNewFormat(ratings_data) ==
    /\ ratings_data.items[1].data.type = "dict"
    /\ ratings_data.items[1].data.has_rating

\* {'overall': data.get('rating', default_rating), **data.get('surface_ratings', {})}
NewFormatEntry(data) ==
    [k \in {"overall"} \cup DOMAIN data.surface_ratings |->
        IF k \in DOMAIN data.surface_ratings THEN data.surface_ratings[k]
        ELSE IF data.has_rating THEN data.rating
        ELSE DEFAULT_RATING * RS]

\* {player: {'overall': rating}} of the old format
OldFormatEntry(data) ==
    [k \in {"overall"} |-> IF data.type = "number" THEN data.rating ELSE NotANumber]

RECURSIVE RatingsOfItems(_, _, _)
RatingsOfItems(items, new_format, rt) ==
    IF items = <<>> THEN rt
    ELSE RatingsOfItems(Tail(items), new_format,
                        Put(rt, Head(items).player,
                            IF new_format THEN NewFormatEntry(Head(items).data)
                            ELSE OldFormatEntry(Head(items).data)))

RECURSIVE DatesOfItems(_, _)
DatesOfItems(items, lm) ==
    IF items = <<>> THEN lm
    ELSE DatesOfItems(Tail(items),
                      IF Head(items).data.date.kind = "iso"
                      THEN Put(lm, Head(items).player,
                               fromisoformat(Head(items).data.date))
                      ELSE lm)

\* data.get(...) on a value that is not a dict
GetRaises(items) == \E i \in 1..Len(items) : items[i].data.type # "dict"

Engine(kind, rt, lm) == [kind |-> kind, ratings |-> rt, last_match_dates |-> lm]

\* the normalisation of __init__ and of reload_ratings; only __init__ reads
\* the dates (with_dates)
Normalized(ratings_data, lm, with_dates) ==
    IF ~NonEmptyDict(ratings_data) THEN Engine("ok", <<>>, lm)
    ELSE IF ~IsNewFormat(ratings_data)
    THEN Engine("ok", RatingsOfItems(ratings_data.items, FALSE, <<>>), lm)
    ELSE IF GetRaises(ratings_data.items) THEN Engine("AttributeError", <<>>, lm)
    ELSE Engine("ok", RatingsOfItems(ratings_data.items, TRUE, <<>>),
                IF with_dates THEN DatesOfItems(ratings_data.items, lm) ELSE lm)

FromLoad(loaded, lm, with_dates) ==
    IF loaded.kind # "ok" THEN Engine(loaded.kind, <<>>, lm)
    ELSE Normalized(loaded.value, lm, with_dates)

\* TennisEloRatingSystem.__init__: the engine it builds, or what it raises
__init__(file) == FromLoad(load(file), <<>>, TRUE)

\* reload_ratings: self._last_match_dates is left as it was
reload_ratings(file, lm) == FromLoad(load(file), lm, FALSE)

\* ------------------------------------------------------------------- state
VARIABLES
    ratings,            \* self._ratings
    last_match_dates,   \* self._last_match_dates
    now,                \* datetime.now(), in months
    applied,            \* update_ratings calls so far
    prev,               \* ratings and dates before the last update_ratings
    last,               \* the last update_ratings call: inputs, locals, result
    later,              \* the same records applied by a run at wall-clock MaxNow
    cache,              \* cache_storage: min_edge -> cached value bets
    calls,              \* betting-service calls so far
    bets,               \* the last betting-service call: inputs, locals, result
    file,               \* the ratings file of the repository
    engine,             \* "none", "up", or the error the constructor raised
    matches_df,         \* the match records of the data files, in file order
    metadata,           \* last_update of .ratings_metadata.json, or NoDate
    fed,                \* every update_ratings call of the drivers, in order
    inflight            \* the update_ratings call a driver is in the middle of

vars == <<ratings, last_match_dates, now, applied, prev, last, later,
          cache, calls, bets, file, engine, matches_df, metadata,
          fed, inflight>>
ratingVars == <<ratings, last_match_dates, now, applied, prev, last, later>>
betVars == <<cache, calls, bets>>
storeVars == <<file, engine>>
trainVars == <<matches_df, metadata, fed, inflight>>

EmptyMap == [x \in {} |-> 0]
NoCall == [op |-> "none"]

\* Stores the engine is constructed on (__init__ reads repository.load())
StoreA == [ratings |-> [p \in {"a", "b"} |->
                IF p = "a" THEN [k \in {"overall", "hard"} |->
                                    IF k = "overall" THEN 1600 * RS ELSE 1700 * RS]
                ELSE [k \in {"overall", "clay"} |->
                                    IF k = "overall" THEN 1500 * RS ELSE 1599 * RS]],
           last_match_dates |-> [p \in {"a", "b"} |-> 0]]
StoreB == [ratings |-> [p \in {"a", "b"} |->
                IF p = "a" THEN [k \in {"overall"} |-> 2200 * RS]
                ELSE [k \in {"overall", "hard"} |->
                                    IF k = "overall" THEN 1900 * RS ELSE 1899 * RS]],
           last_match_dates |-> [p \in {"a"} |-> 0]]
StoreEmpty == [ratings |-> EmptyMap, last_match_dates |-> EmptyMap]
Stores == {StoreEmpty, StoreA, StoreB}

\* ------------------------------------------------------ odds provider data
Quote(title, key, price1, price2) ==
    [title |-> title, key |-> key, price1 |-> price1, price2 |-> price2]

BookLists ==
    { <<Quote("bk1", "h2h", 150, 260), Quote("bk2", "h2h", 220, 170),
        Quote("bk3", "h2h", 150, 255)>>,
      <<Quote("bk1", "h2h", 200, 210), Quote("bk2", "spreads", 190, 190),
        Quote("bk3", "h2h", 190, 190)>>,
      <<Quote("bk1", "h2h", NoPrice, 200), Quote("bk2", "h2h", 120, 600)>>,
      <<Quote("bk1", "h2h", 0, 200)>> }

\* events: id, players, surface, hours until the start
Events ==
    { [id |-> 1, home_team |-> "a", away_team |-> "b", surface |-> "hard",
       commence_time |-> 3],
      [id |-> 2, home_team |-> "b", away_team |-> "a", surface |-> "clay",
       commence_time |-> 5],
      [id |-> 3, home_team |-> "a", away_team |-> "c", surface |-> "hard",
       commence_time |-> 30] }

Match(e, bookmakers) ==
    [id |-> e.id, home_team |-> e.home_team, away_team |-> e.away_team,
     surface |-> e.surface, commence_time |-> e.commence_time,
     bookmakers |-> bookmakers]

FeedMatches == {Match(e, bl) : e \in Events, bl \in BookLists}

\* what get_odds returns: up to MaxFeed events, each once, in id order
RECURSIVE FeedsOfLen(_)
FeedsOfLen(n) ==
    IF n = 0 THEN {<<>>}
    ELSE {Append(f, m) : f \in FeedsOfLen(n - 1), m \in FeedMatches}

Feeds ==
    {f \in UNION {FeedsOfLen(n) : n \in 0..MaxFeed} :
        \A i \in 1..Len(f) : \A j \in 1..Len(f) : i < j => f[i].id < f[j].id}

\* an answer of odds_provider.get_odds: the matches, or an exception
Answer(f) == [down |-> FALSE, matches |-> f]
ProviderDown == [down |-> TRUE, matches |-> <<>>]
Answers == {Answer(f) : f \in Feeds} \cup {ProviderDown}
MinEdges == {0 - PctEdge, 0, 5 * PctEdge}

\* what a call of the betting service returned or raised, the cache it left
\* and the matches it fetched
Outcome(kind, value_bets, c, fetched, matches) ==
    [kind |-> kind, value_bets |-> value_bets, cache |-> c, fetched |-> fetched,
     matches |-> matches]

\* the end of find_value_bets: the computed bets are cached and returned
Computed(c, min_edge, matches, value_bets) ==
    Outcome("ok", value_bets, Put(c, min_edge, value_bets), TRUE, matches)

\* BettingService.find_value_bets
find_value_bets(rt, lm, clock, c, min_edge, answer) ==
    IF min_edge < 0 THEN Outcome("ValidationError", <<>>, c, FALSE, <<>>)
    ELSE IF min_edge \in DOMAIN c /\ c[min_edge] # <<>>
    THEN Outcome("ok", c[min_edge], c, FALSE, <<>>)
    ELSE IF answer.down THEN Outcome("OddsProviderError", <<>>, c, FALSE, <<>>)
    ELSE IF ProcessRaises(answer.matches)
    THEN Outcome("ValueError", <<>>, c, TRUE, answer.matches)
    ELSE Computed(c, min_edge, answer.matches,
                  _process_matches_for_value_bets(rt, lm, clock, answer.matches,
                                                  min_edge))

\* the rest of get_todays_value_bets after find_value_bets returned r
TodaysFrom(r) ==
    [kind |-> r.kind, value_bets |-> r.value_bets, cache |-> r.cache,
     fetched |-> r.fetched, matches |-> r.matches,
     next_24h_bets |-> InNext24h(r.value_bets),
     best |-> IF r.kind = "ok"
              THEN _select_best_bet_per_match(InNext24h(r.value_bets))
              ELSE <<>>]

\* BettingService.get_todays_value_bets
get_todays_value_bets(rt, lm, clock, c, min_edge, answer) ==
    TodaysFrom(find_value_bets(rt, lm, clock, c, min_edge, answer))

InitRatings ==
    /\ \E s \in Stores :
        /\ ratings = s.ratings
        /\ last_match_dates = s.last_match_dates
        /\ later = s
        /\ prev = s
    /\ applied = 0
    /\ last = NoCall

InitBets ==
    /\ cache = EmptyMap
    /\ calls = 0
    /\ bets = NoCall

\* the engine is up, constructed on the file of its ratings
InitStore ==
    /\ file = save_ratings(ratings, last_match_dates)
    /\ engine = "up"

\* no data files, no metadata file, no driver has run
InitTraining ==
    /\ matches_df = <<>>
    /\ metadata = NoDate
    /\ fed = <<>>
    /\ inflight = NoCall

Init ==
    /\ InitRatings
    /\ now = 0
    /\ InitBets
    /\ InitStore
    /\ InitTraining

\* the wall clock advances a month
Tick ==
    /\ now < MaxNow
    /\ now' = now + 1
    /\ UNCHANGED <<ratings, last_match_dates, applied, prev, last, later>>
    /\ UNCHANGED betVars
    /\ UNCHANGED storeVars
    /\ UNCHANGED trainVars

\* update_ratings(winner, loser, winner_score, loser_score, surface, match_date)
\* with a winner_score of `scores`, at most `limit` times
ApplyFrom(scores, limit) ==
    /\ applied < limit
    /\ \E winner \in Players, loser \in Players, sc \in scores,
          surface \in Surfaces, date \in 0..MaxDate :
        /\ date <= now
        /\ winner # loser
        /\ LET u == update_ratings(ratings, last_match_dates, winner, loser, sc,
                                   surface, date, now)
               v == update_ratings(later.ratings, later.last_match_dates, winner,
                                   loser, sc, surface, date, MaxNow)
           IN  /\ ratings' = u.ratings
               /\ last_match_dates' = u.last_match_dates
               /\ prev' = [ratings |-> ratings, last_match_dates |-> last_match_dates]
               /\ last' = [op |-> "update_ratings", winner |-> winner, loser |-> loser,
                           winner_score |-> sc, surface |-> surface,
                           match_date |-> date, clock |-> now, out |-> u,
                           later_out |-> v]
               /\ later' = [ratings |-> v.ratings,
                            last_match_dates |-> v.last_match_dates]
    /\ applied' = applied + 1
    /\ UNCHANGED now
    /\ UNCHANGED betVars
    /\ UNCHANGED storeVars
    /\ UNCHANGED trainVars

Apply == ApplyFrom(ScoreInputs, MaxMatches)

Next == Tick \/ Apply

Spec == Init /\ [][Next]_vars

\* ------------------------------------------------- updates with any score
MaxScored == 1      \* update_ratings calls per run with scores of any shape

\* winner_score values that are no list of 'games-games' sets: a value that is
\* no string, "", "abc", "6-4 6-4 RET", "6-4 x-y 6-4", "6-4 6-4 6",
\* "6-4-1 6-4 6-4", "7-6(5) 6-4"
MalformedScores ==
    { WrongType,
      Str(<<>>),
      Str(<< <<NotInt>> >>),
      Str(<<W, W, <<NotInt>> >>),
      Str(<<W, <<NotInt, NotInt>>, W>>),
      Str(<<W, W, <<6>> >>),
      Str(<< <<6, 4, 1>>, W, W>>),
      Str(<< <<7, NotInt>>, W>>) }

ApplyAnyScore == ApplyFrom(ScoreInputs \cup MalformedScores, MaxScored)

NextScores == Tick \/ ApplyAnyScore

SpecScores == Init /\ [][NextScores]_vars

\* ------------------------------------- the converter and the edge on call
MaxGrid == 40       \* probabilities are the multiples of 1 / MaxGrid

Formats == {"decimal", "american"}

\* probabilities handed to the converter, some outside (0, 1)
Probabilities == {(k * PS) \div MaxGrid : k \in (0 - 1)..(MaxGrid + 1)}

\* odds handed to the converter and to calculate_betting_edge: decimal odds
\* -1.50, 0, 1.50, 2.00, 2.50, 3.00 and American odds -200, -100, 0, +100,
\* +150, +200
OddsIn(odds_format) ==
    IF odds_format = "decimal"
    THEN {0 - 150, 0, 150, 200, 250, 300}
    ELSE {0 - 200 * OS, 0 - 100 * OS, 0, 100 * OS, 150 * OS, 200 * OS}

\* what a call returned (raises = "none") or raised
Returns(value) == [raises |-> "none", value |-> value]
Raises(error) == [raises |-> error, value |-> NoPrice]

\* decimal_to_probability / american_to_probability(odds)
ToProbability ==
    /\ \E odds_format \in Formats :
       \E odds \in OddsIn(odds_format) :
        bets' = [op |-> "to_probability", odds_format |-> odds_format,
                 odds |-> odds,
                 out |-> IF EdgeRaises(odds, odds, odds_format)
                         THEN Raises("ValueError")
                         ELSE Returns(ImpliedProbability(odds, odds_format))]
    /\ UNCHANGED <<cache, calls>>
    /\ UNCHANGED ratingVars
    /\ UNCHANGED storeVars
    /\ UNCHANGED trainVars

\* probability_to_decimal / probability_to_american(probability), and the
\* probability the converter reads from the odds returned
FromProbability ==
    /\ \E odds_format \in Formats, probability \in Probabilities :
        LET odds == IF odds_format = "decimal"
                    THEN probability_to_decimal(probability)
                    ELSE probability_to_american(probability)
        IN  bets' = [op |-> "from_probability", odds_format |-> odds_format,
                     probability |-> probability,
                     out |-> IF ProbabilityInvalid(probability)
                             THEN Raises("ValueError")
                             ELSE Returns(odds),
                     back |-> IF ProbabilityInvalid(probability)
                                 \/ EdgeRaises(odds, odds, odds_format)
                              THEN Raises("ValueError")
                              ELSE Returns(ImpliedProbability(odds, odds_format))]
    /\ UNCHANGED <<cache, calls>>
    /\ UNCHANGED ratingVars
    /\ UNCHANGED storeVars
    /\ UNCHANGED trainVars

\* calculate_betting_edge(player1, player2, player1_odds, player2_odds,
\* surface, odds_format)
CalculateBettingEdge ==
    /\ \E player1 \in Players, player2 \in Players, surface \in Surfaces,
          odds_format \in Formats :
       \E player1_odds \in OddsIn(odds_format), player2_odds \in OddsIn(odds_format) :
        /\ player1 # player2
        /\ bets' = [op |-> "calculate_betting_edge", player1 |-> player1,
                    player2 |-> player2, surface |-> surface,
                    odds_format |-> odds_format,
                    player1_odds |-> player1_odds, player2_odds |-> player2_odds,
                    out |-> IF EdgeRaises(player1_odds, player2_odds, odds_format)
                            THEN Raises("ValueError")
                            ELSE Returns(calculate_betting_edge(ratings,
                                    last_match_dates, now, player1, player2,
                                    player1_odds, player2_odds, surface,
                                    odds_format))]
    /\ UNCHANGED <<cache, calls>>
    /\ UNCHANGED ratingVars
    /\ UNCHANGED storeVars
    /\ UNCHANGED trainVars

NextOdds == ToProbability \/ FromProbability \/ CalculateBettingEdge

SpecOdds == Init /\ [][NextOdds]_vars

\* ------------------------------------------------- the betting service runs
\* The service answers requests on ratings that training has left; the month
\* of the requests is the first or the last of the model's clock.
InitService ==
    /\ InitRatings
    /\ now \in {0, MaxNow}
    /\ InitBets
    /\ InitStore
    /\ InitTraining

\* a call of the service ends: its result r, the cache it leaves
ServiceCall(op, min_edge, answer, r) ==
    /\ (~r.fetched /\ r.kind # "OddsProviderError") => answer = Answer(<<>>)
    /\ cache' = r.cache
    /\ bets' = [op |-> op, min_edge |-> min_edge, out |-> r]

\* find_value_bets(min_edge); the provider answers with any feed, or fails
FindValueBets ==
    /\ calls < MaxCalls
    /\ \E min_edge \in MinEdges, answer \in Answers :
        ServiceCall("find_value_bets", min_edge, answer,
                    find_value_bets(ratings, last_match_dates, now, cache, min_edge,
                                    answer))
    /\ calls' = calls + 1
    /\ UNCHANGED ratingVars
    /\ UNCHANGED storeVars
    /\ UNCHANGED trainVars

\* get_todays_value_bets(min_edge)
GetTodaysValueBets ==
    /\ calls < MaxCalls
    /\ \E min_edge \in MinEdges, answer \in Answers :
        ServiceCall("get_todays_value_bets", min_edge, answer,
                    get_todays_value_bets(ratings, last_match_dates, now, cache,
                                          min_edge, answer))
    /\ calls' = calls + 1
    /\ UNCHANGED ratingVars
    /\ UNCHANGED storeVars
    /\ UNCHANGED trainVars

\* the TTL of the cached entries passes (JsonCacheStorage.get deletes them)
ExpireCache ==
    /\ cache # EmptyMap
    /\ cache' = EmptyMap
    /\ UNCHANGED <<calls, bets>>
    /\ UNCHANGED ratingVars
    /\ UNCHANGED storeVars
    /\ UNCHANGED trainVars

NextService == FindValueBets \/ GetTodaysValueBets \/ ExpireCache

SpecService == InitService /\ [][NextService]_vars

\* ------------------------------------------------------------ ratings store
\* contents of the ratings file: records of one or two players in each
\* format, and files that hold no rating data
Records ==
    { Scalar(1600 * RS),
      Structured(TRUE, 1700 * RS, [surface \in {"hard"} |-> 1750 * RS], isoformat(0)),
      Structured(TRUE, 1650 * RS, <<>>, BadIso),
      Structured(TRUE, 1150 * RS, <<>>, isoformat(0)),
      Structured(FALSE, 0, [surface \in {"clay"} |-> 1580 * RS], NoIso),
      Text }

Files ==
    { NoFile,
      [kind |-> "blank", value |-> Dict(<<>>)],
      [kind |-> "garbage", value |-> Dict(<<>>)],
      Json([type |-> "list", items |-> <<>>]),
      Json([type |-> "number", items |-> <<>>]),
      Json(Dict(<<>>)) }
    \cup { Json(Dict(<<Item("a", x)>>)) : x \in Records }
    \cup { Json(Dict(<<Item("a", x), Item("b", y)>>)) : x \in Records, y \in Records }

\* every stored rating is a number (json.dump and the arithmetic accept it)
Numeric(rt) == \A p \in DOMAIN rt : \A k \in DOMAIN rt[p] : rt[p][k] # NotANumber

InitFiles ==
    /\ file \in Files
    /\ engine = "none"
    /\ ratings = EmptyMap
    /\ last_match_dates = EmptyMap
    /\ later = StoreEmpty
    /\ prev = StoreEmpty
    /\ applied = 0
    /\ last = NoCall
    /\ now \in {0, MaxNow}
    /\ InitBets
    /\ InitTraining

\* TennisEloRatingSystem(repository): the constructor loads the file
Construct ==
    /\ engine = "none"
    /\ LET e == __init__(file)
       IN  /\ engine' = IF e.kind = "ok" THEN "up" ELSE e.kind
           /\ ratings' = e.ratings
           /\ last_match_dates' = e.last_match_dates
           /\ last' = [op |-> "__init__", file |-> file, out |-> e]
    /\ UNCHANGED <<file, now, applied, prev, later>>
    /\ UNCHANGED betVars
    /\ UNCHANGED trainVars

\* reload_ratings(); when it raises, the engine keeps its ratings
Reload ==
    /\ engine = "up"
    /\ LET e == reload_ratings(file, last_match_dates)
       IN  /\ ratings' = IF e.kind = "ok" THEN e.ratings ELSE ratings
           /\ last' = [op |-> "reload_ratings", file |-> file, out |-> e]
    /\ UNCHANGED <<file, engine, last_match_dates, now, applied, prev, later>>
    /\ UNCHANGED betVars
    /\ UNCHANGED trainVars

\* save_ratings()
Save ==
    /\ engine = "up"
    /\ Numeric(ratings)
    /\ file' = save_ratings(ratings, last_match_dates)
    /\ last' = [op |-> "save_ratings", file |-> file',
                out |-> Engine("ok", ratings, last_match_dates)]
    /\ UNCHANGED <<engine, ratings, last_match_dates, now, applied, prev, later>>
    /\ UNCHANGED betVars
    /\ UNCHANGED trainVars

\* the file is replaced from outside the engine (a training run, an operator)
Rewrite ==
    /\ engine = "up"
    /\ \E f \in Files : file' = f
    /\ UNCHANGED <<engine, ratings, last_match_dates, now, applied, prev, last, later>>
    /\ UNCHANGED betVars
    /\ UNCHANGED trainVars

NextStore == Construct \/ Reload \/ Save \/ Rewrite

SpecStore == InitFiles /\ [][NextStore]_vars

\* --------------------------------------------- decay on calendar dates
\* _apply_time_decay takes datetimes; it reads only their year and month.
MaxBack == 2        \* last matches as early as MaxBack months before month 0

\* a datetime: its calendar month (year * 12 + month, counted from January
\* 2024) and its day of the month
Datetime(month, day) == [month |-> month, day |-> day]

Days == {1, 28}
Datetimes(months) == {Datetime(m, d) : m \in months, d \in Days}
DecayRatings == {1100 * RS, 1250 * RS, 2000 * RS}

\* d is not after e
NotAfter(d, e) == d.month < e.month \/ (d.month = e.month /\ d.day <= e.day)

\* _apply_time_decay on datetimes: months_inactive is
\* (now.year - last.year) * 12 + now.month - last.month
apply_time_decay_on(rating, last_match_date, clock) ==
    _apply_time_decay(rating, last_match_date.month, clock.month)

InitDecay ==
    /\ InitRatings
    /\ ratings = EmptyMap
    /\ now = 0
    /\ InitBets
    /\ InitStore
    /\ InitTraining

\* _apply_time_decay(rating, last_match_date) called on day `today` of the
\* current month, and the same call for an earlier last match
ApplyTimeDecay ==
    /\ \E rating \in DecayRatings, today \in Days,
          earlier \in Datetimes((0 - MaxBack)..now),
          last_match_date \in Datetimes((0 - MaxBack)..now) :
        /\ NotAfter(earlier, last_match_date)
        /\ NotAfter(last_match_date, Datetime(now, today))
        /\ last' = [op |-> "_apply_time_decay", rating |-> rating,
                    last_match_date |-> last_match_date,
                    clock |-> Datetime(now, today),
                    out |-> apply_time_decay_on(rating, last_match_date,
                                                Datetime(now, today)),
                    earlier |-> earlier,
                    earlier_out |-> apply_time_decay_on(rating, earlier,
                                                        Datetime(now, today))]
    /\ UNCHANGED <<ratings, last_match_dates, now, applied, prev, later>>
    /\ UNCHANGED betVars
    /\ UNCHANGED storeVars
    /\ UNCHANGED trainVars

NextDecay == Tick \/ ApplyTimeDecay

SpecDecay == InitDecay /\ [][NextDecay]_vars

\* -------------------------------------------------------- training drivers
MaxRecords == 2     \* match records in the data files

\* a row of the match data: data/<tour>/<tour>_matches_<year>.csv
MatchRow(tour, winner, loser, tourney_date) ==
    [tour |-> tour, winner |-> winner, loser |-> loser, surface |-> "hard",
     tourney_date |-> tourney_date]

Rows ==
    { MatchRow(tour, pair[1], pair[2], tourney_date) :
        tour \in {"atp", "wta"},
        pair \in {<<"a", "b">>, <<"c", "a">>},
        tourney_date \in 0..MaxDate }

\* DataFrame.sort_values(date_col): rows of one date keep their order
RECURSIVE sort_values(_)
sort_values(df) ==
    IF df = <<>> THEN <<>>
    ELSE LET rest == sort_values(Tail(df))
             Earlier(row) == row.tourney_date < Head(df).tourney_date
             NotEarlier(row) == ~Earlier(row)
         IN  SelectSeq(rest, Earlier) \o <<Head(df)>> \o SelectSeq(rest, NotEarlier)

\* load_match_data(): the files of atp, then the files of wta, concatenated;
\* update_match_data keeps each file sorted by tourney_date
load_match_data(df) ==
    LET Atp(row) == row.tour = "atp"
        Wta(row) == row.tour = "wta"
    IN  sort_values(SelectSeq(df, Atp)) \o sort_values(SelectSeq(df, Wta))

\* the loop of a driver over the rows: one update_ratings call per row, with
\* the row's date (own_date) or with no match_date at all
RECURSIVE Feed(_, _, _, _, _, _)
Feed(rt, lm, df, own_date, clock, done) ==
    IF df = <<>> THEN [ratings |-> rt, last_match_dates |-> lm, calls |-> done]
    ELSE LET row == Head(df)
             u == update_ratings(rt, lm, row.winner, row.loser, NoScore, row.surface,
                                 IF own_date THEN row.tourney_date ELSE NoDate, clock)
         IN  Feed(u.ratings, u.last_match_dates, Tail(df), own_date, clock,
                  Append(done, [row |-> row,
                                 match_date |-> u.last_match_dates[row.winner],
                                 before |-> lm]))

\* ratings_file.exists() and ratings_file.stat().st_size > 100
ratings_exist(f) == f.kind = "json" /\ f.value.items # <<>>

\* the downloader merges a result into the file of its tour and year
Download ==
    /\ Len(matches_df) < MaxRecords
    /\ \E row \in Rows :
        /\ row.tourney_date <= now
        /\ \A i \in 1..Len(matches_df) : matches_df[i] # row
        /\ matches_df' = Append(matches_df, row)
    /\ UNCHANGED <<metadata, fed, inflight>>
    /\ UNCHANGED ratingVars
    /\ UNCHANGED betVars
    /\ UNCHANGED storeVars

\* train_model_at_startup(): at startup and in the daily job. A month of the
\* model is the first day of the month for a match and a later moment of the
\* month for the wall clock.
TrainModelAtStartup ==
    /\ matches_df # <<>>
    /\ LET exists == ratings_exist(file) /\ metadata # NoDate
           last_update_date == IF exists THEN metadata ELSE NoDate
           New(row) == last_update_date = NoDate \/ row.tourney_date > last_update_date
           rows == sort_values(SelectSeq(load_match_data(matches_df), New))
           out == Feed(IF exists THEN ratings ELSE EmptyMap,
                       IF exists THEN last_match_dates ELSE EmptyMap,
                       rows, TRUE, now, <<>>)
           returns == rows = <<>> /\ last_update_date # NoDate
       IN  /\ ratings' = IF returns THEN ratings ELSE out.ratings
           /\ last_match_dates' = IF returns THEN last_match_dates
                                  ELSE out.last_match_dates
           /\ file' = IF returns THEN file
                      ELSE save_ratings(out.ratings, out.last_match_dates)
           /\ metadata' = IF returns THEN metadata ELSE now
           /\ fed' = (IF exists THEN fed ELSE <<>>) \o out.calls
           /\ last' = [op |-> "train_model_at_startup", clock |-> now,
                       last_update_date |-> last_update_date,
                       matches_df |-> matches_df, calls |-> out.calls,
                       raises |-> "none"]
    /\ UNCHANGED <<now, applied, prev, later, engine, matches_df, inflight>>
    /\ UNCHANGED betVars

\* update_ratings_from_matches(): the batch of daily_update and unified_update
UpdateRatingsFromMatches ==
    /\ matches_df # <<>>
    /\ LET exists == file.kind # "missing"
           out == Feed(ratings, last_match_dates, load_match_data(matches_df),
                       FALSE, now, <<>>)
       IN  IF exists
           THEN /\ last' = [op |-> "update_ratings_from_matches", clock |-> now,
                            last_update_date |-> NoDate, matches_df |-> matches_df,
                            calls |-> <<>>, raises |-> "AttributeError"]
                /\ UNCHANGED <<ratings, last_match_dates, file, fed>>
           ELSE /\ ratings' = out.ratings
                /\ last_match_dates' = out.last_match_dates
                /\ file' = save_ratings(out.ratings, out.last_match_dates)
                /\ fed' = fed \o out.calls
                /\ last' = [op |-> "update_ratings_from_matches", clock |-> now,
                            last_update_date |-> NoDate, matches_df |-> matches_df,
                            calls |-> out.calls, raises |-> "TypeError"]
    /\ UNCHANGED <<now, applied, prev, later, engine, matches_df, metadata, inflight>>
    /\ UNCHANGED betVars

InitTrain ==
    /\ InitRatings
    /\ ratings = EmptyMap
    /\ now = 0
    /\ InitBets
    /\ file = NoFile
    /\ engine = "up"
    /\ InitTraining

NextTrain == Tick \/ Download \/ TrainModelAtStartup \/ UpdateRatingsFromMatches

SpecTrain == InitTrain /\ [][NextTrain]_vars

\* ------------------------------------------- requests during the daily job
\* The daily job runs train_model_at_startup on a thread of the background
\* scheduler; the endpoints run on the event loop; the engine has no lock. A
\* thread switch can fall between any two statements of update_ratings.

MaxJob == 1         \* update_ratings calls of the daily job

\* the ratings update_ratings has written when it reaches the position pc:
\* "dates" (both last match dates stamped), "seeded" (new players have their
\* overall entry), "winner" (the winner's overall is raised)
WrittenAt(pc, rt, winner, loser, u) ==
    LET rt1 == IF u.is_winner_new
               THEN Put(rt, winner, [k \in {"overall"} |-> u.initial_winner])
               ELSE rt
        seeded == IF u.is_loser_new
                  THEN Put(rt1, loser, [k \in {"overall"} |-> u.initial_loser])
                  ELSE rt1
    IN  IF pc = "dates" THEN rt
        ELSE IF pc = "seeded" THEN seeded
        ELSE Put(seeded, winner,
                 Put(seeded[winner], "overall", u.ratings[winner]["overall"]))

\* the job enters update_ratings and stamps the last match dates
BeginUpdate ==
    /\ inflight = NoCall
    /\ applied < MaxJob
    /\ \E winner \in Players, loser \in Players, surface \in Surfaces,
          date \in 0..MaxDate :
        /\ date <= now
        /\ winner # loser
        /\ LET u == update_ratings(ratings, last_match_dates, winner, loser, NoScore,
                                   surface, date, now)
           IN  /\ inflight' = [op |-> "update_ratings", pc |-> "dates",
                               winner |-> winner, loser |-> loser,
                               before |-> [ratings |-> ratings,
                                           last_match_dates |-> last_match_dates],
                               out |-> u]
               /\ last_match_dates' = u.last_match_dates
    /\ UNCHANGED <<ratings, now, applied, prev, last, later>>
    /\ UNCHANGED <<matches_df, metadata, fed>>
    /\ UNCHANGED betVars
    /\ UNCHANGED storeVars

\* the job goes on to the next position of update_ratings, or returns from it
ContinueUpdate ==
    /\ inflight # NoCall
    /\ LET pc == IF inflight.pc = "dates" THEN "seeded"
                 ELSE IF inflight.pc = "seeded" THEN "winner"
                 ELSE "return"
       IN  IF pc = "return"
           THEN /\ ratings' = inflight.out.ratings
                /\ inflight' = NoCall
                /\ applied' = applied + 1
           ELSE /\ ratings' = WrittenAt(pc, inflight.before.ratings, inflight.winner,
                                        inflight.loser, inflight.out)
                /\ inflight' = [inflight EXCEPT !.pc = pc]
                /\ UNCHANGED applied
    /\ UNCHANGED <<last_match_dates, now, prev, last, later>>
    /\ UNCHANGED <<matches_df, metadata, fed>>
    /\ UNCHANGED betVars
    /\ UNCHANGED storeVars

\* GET /api/v2/predict: RatingService.predict_match on the engine as it is
PredictEndpoint ==
    /\ \E player1 \in Players, player2 \in Players, surface \in Surfaces :
        /\ player1 # player2
        /\ bets' = [op |-> "predict_match", player1 |-> player1,
                    player2 |-> player2, surface |-> surface,
                    during |-> inflight,
                    seen |-> [ratings |-> ratings,
                              last_match_dates |-> last_match_dates],
                    out |-> service_predict_match(ratings, last_match_dates,
                                                  player1, player2, surface, now)]
    /\ UNCHANGED <<cache, calls>>
    /\ UNCHANGED ratingVars
    /\ UNCHANGED storeVars
    /\ UNCHANGED trainVars

NextServe == BeginUpdate \/ ContinueUpdate \/ PredictEndpoint

SpecServe == Init /\ [][NextServe]_vars

\* ------------------------------------------------- match results providers
MaxFallbacks == 2   \* fallback providers behind the primary one

\* what a provider's get_results_by_date does: it returns matches, returns an
\* empty list, or raises with a message ("404": no data for the date)
ProviderOutcomes ==
    { [kind |-> "matches", text |-> ""], [kind |-> "empty", text |-> ""],
      [kind |-> "raises", text |-> "404"], [kind |-> "raises", text |-> "timeout"] }

\* FallbackMatchResultsProvider.get_results_by_date on providers that answer
\* with `providers` (the primary first), for a date in the future or not;
\* _last_used_provider is the position of the provider, 0 when the attribute
\* is left as it was
get_results_by_date(providers, is_future_date) ==
    LET Found(i) == providers[i].kind = "matches"
        found == {i \in 1..Len(providers) : Found(i)}
        first == CHOOSE i \in found : \A j \in found : i <= j
        called == IF found = {} THEN Len(providers) ELSE first
        _provider_errors ==
            [i \in 1..(IF found = {} THEN called ELSE called - 1) |->
                IF providers[i].kind = "empty" THEN "returned empty results"
                ELSE providers[i].text]
        actual_errors ==
            SelectSeq(_provider_errors,
                      LAMBDA err : /\ err # "returned empty results"
                                   /\ ~(is_future_date /\ err = "404"))
    IN  [raises |-> IF found = {} /\ actual_errors # <<>>
                    THEN "MatchResultsProviderError" ELSE "none",
         matches |-> found # {},
         called |-> called,
         _last_used_provider |-> IF found = {} THEN 0 ELSE first,
         _provider_errors |-> _provider_errors]

\* get_results_by_date(date, tour) of a coordinator with up to MaxFallbacks
\* fallback providers
GetResultsByDate ==
    /\ \E n \in 1..(1 + MaxFallbacks), date \in 0..(MaxNow + 1) :
        \E providers \in [1..n -> ProviderOutcomes] :
            last' = [op |-> "get_results_by_date", providers |-> providers,
                     date |-> date, is_future_date |-> date > now,
                     out |-> get_results_by_date(providers, date > now)]
    /\ UNCHANGED <<ratings, last_match_dates, now, applied, prev, later>>
    /\ UNCHANGED betVars
    /\ UNCHANGED storeVars
    /\ UNCHANGED trainVars

NextResults == Tick \/ GetResultsByDate

SpecResults == Init /\ [][NextResults]_vars

\* ================================================================= claims
IsUpdate == last.op = "update_ratings"

\* the overall rating a player of the last update_ratings had before the
\* delta: the stored one, or the cold-start seed of a player the call created
OverallBefore(p, is_new, initial) ==
    IF is_new THEN initial ELSE prev.ratings[p]["overall"]

\* the rating on the match surface before the delta: the stored surface
\* rating, or that overall when the player had no entry for the surface
SurfaceBefore(p, is_new, initial) ==
    IF ~is_new /\ last.surface \in DOMAIN prev.ratings[p]
    THEN prev.ratings[p][last.surface]
    ELSE OverallBefore(p, is_new, initial)

StoredIsBeforePlusDelta(p, is_new, initial, change) ==
    /\ ratings[p]["overall"] = OverallBefore(p, is_new, initial) + change
    /\ ratings[p][last.surface] = SurfaceBefore(p, is_new, initial) + change

\* C1: after update_ratings, for the winner and the loser, the stored overall
\* is the overall stored before (or the seed) plus the player's delta and the
\* stored surface rating is the surface rating stored before (or that overall)
\* plus the same delta; no time decay is folded into a stored rating.
C1_StoredIsBeforePlusDelta ==
    IsUpdate =>
        /\ StoredIsBeforePlusDelta(last.winner, last.out.is_winner_new,
                                   last.out.initial_winner, last.out.change_winner)
        /\ StoredIsBeforePlusDelta(last.loser, last.out.is_loser_new,
                                   last.out.initial_loser, last.out.change_loser)

\* the cold-start table of the specification
SeedTier(opponent) ==
    IF opponent >= 2200 * RS THEN 1900 * RS
    ELSE IF opponent >= 1900 * RS THEN 1700 * RS
    ELSE IF opponent >= 1700 * RS THEN 1600 * RS
    ELSE IF opponent >= 1600 * RS THEN 1550 * RS
    ELSE 1500 * RS

\* C2: when exactly one player of update_ratings is new, its initial overall
\* rating is the tier of the opponent's stored, non-decayed rating; when both
\* are new, both start at the default.
C2_SeedFromStoredOpponent ==
    IsUpdate =>
        /\ (last.out.is_winner_new /\ ~last.out.is_loser_new =>
                last.out.initial_winner =
                    SeedTier(BaseRating(prev.ratings, last.loser, last.surface)))
        /\ (last.out.is_loser_new /\ ~last.out.is_winner_new =>
                last.out.initial_loser =
                    SeedTier(BaseRating(prev.ratings, last.winner, last.surface)))
        /\ (last.out.is_winner_new /\ last.out.is_loser_new =>
                /\ last.out.initial_winner = 1500 * RS
                /\ last.out.initial_loser = 1500 * RS)

\* sets of a well-formed score the winner took, and lost
RECURSIVE SetsTaken(_, _)
SetsTaken(sets, byWinner) ==
    IF sets = <<>> THEN 0
    ELSE (IF (byWinner /\ Head(sets)[1] > Head(sets)[2])
             \/ (~byWinner /\ Head(sets)[1] < Head(sets)[2]) THEN 1 ELSE 0)
         + SetsTaken(Tail(sets), byWinner)

WellFormed(score) ==
    /\ score.kind = "str"
    /\ score.sets # <<>>
    /\ \A i \in 1..Len(score.sets) :
        /\ Len(score.sets[i]) = 2
        /\ score.sets[i][1] # NotInt /\ score.sets[i][2] # NotInt

\* C3: the multiplier is 1.2 for a 2-0 win, 1.3 for a 3-0 win and 1.0 for
\* every other outcome, contested wins (2-1, 3-2) included.
C3_MultiplierOnlyForStraightSets ==
    IsUpdate /\ WellFormed(last.winner_score) =>
        LET won == SetsTaken(last.winner_score.sets, TRUE)
            lost == SetsTaken(last.winner_score.sets, FALSE)
        IN  last.out.sets_multiplier =
                IF won = 2 /\ lost = 0 THEN 12
                ELSE IF won = 3 /\ lost = 0 THEN 13
                ELSE 10

\* C4: the same records applied to the same store compute the same deltas and
\* leave the same stored ratings whatever the wall-clock time of the run (the
\* run at the clock `now` against the run at the clock MaxNow).
C4_SameResultAtAnyClock ==
    /\ ratings = later.ratings
    /\ last_match_dates = later.last_match_dates
    /\ IsUpdate =>
        /\ last.out.change_winner = last.later_out.change_winner
        /\ last.out.change_loser = last.later_out.change_loser

Unknown == "z"

ServiceReturned == bets.op # "none" /\ bets.out.kind = "ok"
TodaysReturned == bets.op = "get_todays_value_bets" /\ bets.out.kind = "ok"

\* C6: in the list get_todays_value_bets returns no two bets belong to the
\* same match (event), and the bet kept for a match has an expected value at
\* least as high as every input bet of that match, over all bookmakers and
\* both sides.
C6_OneBestBetPerMatch ==
    TodaysReturned =>
        LET best == bets.out.best
            input == bets.out.next_24h_bets
        IN  /\ \A i \in 1..Len(best) : \A j \in 1..Len(best) :
                    i # j => best[i].match_id # best[j].match_id
            /\ \A i \in 1..Len(best) : \A j \in 1..Len(input) :
                    input[j].match_id = best[i].match_id =>
                        best[i].expected_value_percentage
                            >= input[j].expected_value_percentage
            /\ \A j \in 1..Len(input) : \E i \in 1..Len(best) :
                    best[i].match_id = input[j].match_id

\* a match with bets of two bookmakers and of both sides, of different
\* expected values, was reduced to one bet, which is not the first of them
C6_Witness ==
    /\ TodaysReturned
    /\ \E i \in 1..Len(bets.out.best) :
        LET b == bets.out.best[i]
            same == {j \in 1..Len(bets.out.next_24h_bets) :
                        bets.out.next_24h_bets[j].match_id = b.match_id}
        IN  /\ Cardinality(same) >= 3
            /\ \E j \in same, k \in same :
                /\ bets.out.next_24h_bets[j].bookmaker
                       # bets.out.next_24h_bets[k].bookmaker
                /\ bets.out.next_24h_bets[j].is_player1_bet
                       # bets.out.next_24h_bets[k].is_player1_bet
            /\ \E j \in same : j > 1 /\ bets.out.next_24h_bets[j] = b
                                     /\ \A k \in same : k < j =>
                                            bets.out.next_24h_bets[k] # b

\* C7: the grouping key is the unordered pair of players: a bet recorded with
\* players (A, B) and one recorded with (B, A) are the same match, and only
\* one of them survives.
C7_PairKeyIsUnordered ==
    TodaysReturned =>
        \A i \in 1..Len(bets.out.best) : \A j \in 1..Len(bets.out.best) :
            i # j => {bets.out.best[i].player1, bets.out.best[i].player2}
                     # {bets.out.best[j].player1, bets.out.best[j].player2}

\* the probability edge of a side of a quote, from the prediction and the price
SideEdge(match, price, side) ==
    predict_match(ratings, last_match_dates, match.home_team, match.away_team,
                  match.surface, now)[side]
    - (PS * OS) \div price

\* the value bet of a side of a quote is in the list
Returned(value_bets, match, bookmaker, side) ==
    \E k \in 1..Len(value_bets) :
        /\ value_bets[k].match_id = match.id
        /\ value_bets[k].bookmaker = bookmaker.title
        /\ value_bets[k].is_player1_bet = (side = 1)
        /\ value_bets[k].edge_percentage
               = SideEdge(match, IF side = 1 THEN bookmaker.price1
                                 ELSE bookmaker.price2, side)

BetsOfQuote(value_bets, match, bookmaker) ==
    {k \in 1..Len(value_bets) : /\ value_bets[k].match_id = match.id
                                /\ value_bets[k].bookmaker = bookmaker.title}

\* C8: find_value_bets(min_edge) returns exactly the sides that clear the
\* bar: every returned bet has a probability edge (model probability minus
\* market-implied probability) >= min_edge, and every side of every
\* head-to-head quote whose edge is >= min_edge is returned, each side on
\* its own.
C8_ExactlyTheSidesThatClear ==
    ServiceReturned =>
        LET value_bets == bets.out.value_bets
            matches == bets.out.matches
        IN  /\ \A k \in 1..Len(value_bets) :
                /\ value_bets[k].edge_percentage >= bets.min_edge
                /\ value_bets[k].our_probability - value_bets[k].bookmaker_probability
                       = value_bets[k].edge_percentage
            /\ bets.out.fetched =>
                \A i \in 1..Len(matches) : \A j \in 1..Len(matches[i].bookmakers) :
                    LET q == matches[i].bookmakers[j]
                    IN  IF q.key = "h2h" /\ q.price1 # NoPrice /\ q.price2 # NoPrice
                        THEN /\ SideEdge(matches[i], q.price1, 1) >= bets.min_edge
                                <=> Returned(value_bets, matches[i], q, 1)
                             /\ SideEdge(matches[i], q.price2, 2) >= bets.min_edge
                                <=> Returned(value_bets, matches[i], q, 2)
                        ELSE BetsOfQuote(value_bets, matches[i], q) = {}

\* a head-to-head quote of the last answer with both prices gave c bets
QuoteGave(c) ==
    \E i \in 1..Len(bets.out.matches) :
        \E j \in 1..Len(bets.out.matches[i].bookmakers) :
            /\ Evaluated(bets.out.matches[i].bookmakers[j])
            /\ Cardinality(BetsOfQuote(bets.out.value_bets, bets.out.matches[i],
                                       bets.out.matches[i].bookmakers[j])) = c

\* one answer of the provider held a quote that gave two bets, one that gave
\* one and one that gave none
C8_Witness ==
    /\ ServiceReturned /\ bets.out.fetched
    /\ QuoteGave(0) /\ QuoteGave(1) /\ QuoteGave(2)

\* the stake of the specification: 0.25 * (b*p - q) / b, floored at 0
KellyStake(vb) ==
    LET b == vb.odds - OS
        p == vb.our_probability
        q == PS - p
    IN  Max(0, (((b * p - OS * q) \div b) * 25) \div 100)

\* C9: recommended_stake is None exactly when the edge percentage is <= 0;
\* otherwise it is max(0, 0.25 * (b*p - q)/b), b = decimal odds - 1, p = our
\* probability, q = 1 - p, and so never negative.
C9_StakeIsFractionalKelly ==
    ServiceReturned =>
        \A k \in 1..Len(bets.out.value_bets) :
            LET vb == bets.out.value_bets[k]
                st == recommended_stake(vb)
            IN  /\ st.kind = "none" <=> vb.edge_percentage <= 0
                /\ st.kind # "none" =>
                    /\ st.kind = "value"
                    /\ st.stake = KellyStake(vb)
                    /\ st.stake >= 0

\* a returned list holds a bet of edge 0 (no stake) and a bet with a stake
C9_Witness ==
    /\ ServiceReturned
    /\ \E k \in 1..Len(bets.out.value_bets) :
        /\ bets.out.value_bets[k].edge_percentage = 0
        /\ recommended_stake(bets.out.value_bets[k]).kind = "none"
    /\ \E k \in 1..Len(bets.out.value_bets) :
        /\ bets.out.value_bets[k].edge_percentage > 0
        /\ recommended_stake(bets.out.value_bets[k]).stake > 0

\* the edges calculate_betting_edge computes for the quotes of the last call
QuoteEdges ==
    IF ~(ServiceReturned /\ bets.out.fetched) THEN {}
    ELSE UNION {
        { [edges |-> calculate_betting_edge(ratings, last_match_dates, now,
                        bets.out.matches[i].home_team, bets.out.matches[i].away_team,
                        bets.out.matches[i].bookmakers[j].price1,
                        bets.out.matches[i].bookmakers[j].price2,
                        bets.out.matches[i].surface, "decimal"),
           match |-> bets.out.matches[i],
           quote |-> bets.out.matches[i].bookmakers[j]] :
          j \in {j \in 1..Len(bets.out.matches[i].bookmakers) :
                    Evaluated(bets.out.matches[i].bookmakers[j])} } :
        i \in 1..Len(bets.out.matches) }

EdgeAsSpecified(edge, our_prob, price) ==
    /\ edge.probability_edge = our_prob - (PS * OS) \div price
    /\ edge.expected_value = our_prob * price - PS * OS
    /\ edge.recommendation = "strong_bet" <=> edge.expected_value >= 10 * PctEV
    /\ edge.recommendation = "bet" <=>
            (5 * PctEV <= edge.expected_value /\ edge.expected_value < 10 * PctEV)
    /\ edge.recommendation = "pass" <=> edge.expected_value < 5 * PctEV
    /\ edge.recommendation \in {"strong_bet", "bet", "pass"}

\* C10: the edge of a side is probabilityEdge = (ourProb - bookieProb) * 100
\* and expectedValue = (ourProb * decimalOdds - 1) * 100, and the
\* recommendation follows from the expected value alone: strong_bet iff
\* EV >= 10, bet iff 5 <= EV < 10, pass iff EV < 5.
C10_EdgeAndTiers ==
    \A e \in QuoteEdges :
        LET pr == predict_match(ratings, last_match_dates, e.match.home_team,
                                e.match.away_team, e.match.surface, now)
        IN  /\ EdgeAsSpecified(e.edges.player1, pr[1], e.quote.price1)
            /\ EdgeAsSpecified(e.edges.player2, pr[2], e.quote.price2)

\* the quotes of one call gave all three tiers, one of them with an expected
\* value on a threshold and a tier that the probability edge would not give
C10_Witness ==
    /\ \A t \in {"strong_bet", "bet", "pass"} : \E e \in QuoteEdges :
            e.edges.player1.recommendation = t \/ e.edges.player2.recommendation = t
    /\ \E e \in QuoteEdges :
            /\ e.edges.player2.expected_value = 5 * PctEV
            /\ e.edges.player2.probability_edge < 5 * PctEdge

\* ------------------------------------------------- claims on persistence
\* C11: save_ratings followed by the construction of a new engine on the same
\* store restores, for every player, the same overall rating, the same
\* surface entries with the same values and the same last match date; no
\* player is added or lost.
C11_SaveThenLoadRestores ==
    LET restored == __init__(save_ratings(ratings, last_match_dates))
    IN  /\ restored.kind = "ok"
        /\ DOMAIN restored.ratings = DOMAIN ratings
        /\ \A p \in DOMAIN ratings :
            /\ DOMAIN restored.ratings[p] = DOMAIN ratings[p]
            /\ \A k \in DOMAIN ratings[p] : restored.ratings[p][k] = ratings[p][k]
        /\ DOMAIN restored.last_match_dates = DOMAIN last_match_dates
        /\ \A p \in DOMAIN last_match_dates :
            restored.last_match_dates[p] = last_match_dates[p]

\* matches have been applied; the state to save holds a player with entries
\* for two surfaces, a player without a last match date and a player whose
\* last match date is not the first month
C11_Witness ==
    /\ IsUpdate
    /\ \E p \in DOMAIN ratings : Surfaces \subseteq DOMAIN ratings[p]
    /\ \E p \in DOMAIN ratings : p \notin DOMAIN last_match_dates
    /\ \E p \in DOMAIN last_match_dates : last_match_dates[p] > 0

IsLoad == last.op \in {"__init__", "reload_ratings"}

\* a record of the file in one of the two formats
IsRecord(data) == data.type = "number" \/ (data.type = "dict" /\ data.has_rating)

RecordsOnly(f) ==
    /\ f.kind = "json" /\ f.value.type = "dict"
    /\ \A i \in 1..Len(f.value.items) : IsRecord(f.value.items[i].data)

\* the internal shape of one record, whatever stands next to it
ShapeOf(data) ==
    IF data.type = "number" THEN [k \in {"overall"} |-> data.rating]
    ELSE [k \in {"overall"} \cup DOMAIN data.surface_ratings |->
            IF k = "overall" THEN data.rating ELSE data.surface_ratings[k]]

\* C12: load normalizes every record on its own: a legacy scalar record
\* becomes {overall: number} without surface ratings and without a last match
\* date, so that no decay applies to it, and a structured record becomes its
\* overall, surface ratings and date, whichever format the other records of
\* the store have.
C12_EveryRecordNormalizedAlone ==
    IsLoad /\ RecordsOnly(last.file) =>
        /\ last.out.kind = "ok"
        /\ \A i \in 1..Len(last.file.value.items) :
            LET player == last.file.value.items[i].player
                data == last.file.value.items[i].data
            IN  /\ player \in DOMAIN ratings
                /\ ratings[player] = ShapeOf(data)
                /\ data.type = "number" =>
                    \A s \in Surfaces :
                        get_rating(ratings, last_match_dates, player, s, now)
                            = data.rating
                /\ (last.op = "__init__" /\ data.type = "dict") =>
                    IF data.date.kind = "iso"
                    THEN /\ player \in DOMAIN last_match_dates
                         /\ last_match_dates[player] = fromisoformat(data.date)
                    ELSE player \notin DOMAIN last_match_dates

\* content that is not structured rating data
Invalid(f) ==
    \/ f.kind = "garbage"
    \/ /\ f.kind = "json"
       /\ \/ f.value.type # "dict"
          \/ \E i \in 1..Len(f.value.items) :
                f.value.items[i].data.type \notin {"number", "dict"}

\* C13: the construction of the engine fails with RepositoryError whenever the
\* store holds content that is not valid structured rating data, and the
\* engine never starts on such content; a missing or empty store is loaded
\* as the empty rating state.
C13_InvalidContentRaisesRepositoryError ==
    last.op = "__init__" =>
        /\ Invalid(last.file) =>
            /\ last.out.kind = "RepositoryError"
            /\ engine # "up"
        /\ last.file.kind \in {"missing", "blank"} =>
            /\ engine = "up"
            /\ ratings = EmptyMap

\* ------------------------------------------------ claims on player identity
\* names a caller may pass for the players of the store
Names == Players \cup {"A", " a "}

SameIdentity(n, m) ==
    normalize_player_name(Chars(n)) = normalize_player_name(Chars(m))

\* C14: names that differ only in letter case or surrounding whitespace
\* address the same player state: get_rating and predict_match give for such
\* a name what they give for the name the player was rated under.
C14_NormalizedNameIsIdentity ==
    \A p \in DOMAIN ratings : \A n \in Names : \A s \in Surfaces :
        SameIdentity(n, p) =>
            /\ get_rating(ratings, last_match_dates, n, s, now)
                   = get_rating(ratings, last_match_dates, p, s, now)
            /\ \A q \in Players \ {p} :
                predict_match(ratings, last_match_dates, n, q, s, now)
                    = predict_match(ratings, last_match_dates, p, q, s, now)

\* ------------------------------------------------- claims on rating updates
\* what get_rating gave for a player on the match surface just before the
\* last update_ratings
RatingBefore(p) ==
    get_rating(prev.ratings, prev.last_match_dates, p, last.surface, last.clock)

\* C15: for one update_ratings with multiplier 1.0 and no cold-start seeding,
\* the winner's gain (rating returned for the winner minus the winner's rating
\* on the surface just before the call) equals the loser's loss (the loser's
\* rating on the surface just before the call minus the rating returned for
\* the loser).
C15_ZeroSum ==
    (/\ IsUpdate
     /\ last.out.sets_multiplier = 10
     /\ ~last.out.is_winner_new /\ ~last.out.is_loser_new) =>
        last.out.new_rating_winner - RatingBefore(last.winner)
            = RatingBefore(last.loser) - last.out.new_rating_loser

\* the keys a player has after the last update_ratings: the ones the player
\* had, and "overall" and the match surface for the winner and the loser
KeysAfterUpdate(p) ==
    (IF p \in DOMAIN prev.ratings THEN DOMAIN prev.ratings[p] ELSE {})
    \cup (IF p \in {last.winner, last.loser} THEN {"overall", last.surface} ELSE {})

IsDecay == last.op = "_apply_time_decay"

\* the difference of the calendar months of two datetimes
CalendarMonths(d, clock) == clock.month - d.month

\* the whole months elapsed from d to clock
WholeMonths(d, clock) ==
    CalendarMonths(d, clock) - (IF clock.day < d.day THEN 1 ELSE 0)

\* clock is at most the grace period after d
ElapsedWithinGrace(d, clock) ==
    \/ WholeMonths(d, clock) < DECAY_GRACE_MONTHS
    \/ WholeMonths(d, clock) = DECAY_GRACE_MONTHS /\ clock.day = d.day

\* max(1200, rating * 0.985^(months - 3))
DecayedBy(rating, months) ==
    Max((rating * DecayFactor(months - DECAY_GRACE_MONTHS)) \div FS,
        MIN_RATING_AFTER_DECAY * RS)

\* C17: _apply_time_decay returns the rating unchanged when at most three
\* months have elapsed since the last match, and max(1200, rating *
\* 0.985^(monthsInactive - 3)) when more have, monthsInactive being the months
\* of inactivity counted either as whole months elapsed or as calendar months
C17_DecayByElapsedTime ==
    IsDecay =>
        IF ElapsedWithinGrace(last.last_match_date, last.clock)
        THEN last.out = last.rating
        ELSE \E months \in {WholeMonths(last.last_match_date, last.clock),
                            CalendarMonths(last.last_match_date, last.clock)} :
                last.out = DecayedBy(last.rating, months)

\* C18: for a rating above the floor and two last-match dates, the decayed
\* rating for the earlier date is at most the one for the later date, which is
\* at most the rating, and neither is below 1200
C18_DecayMonotone ==
    (IsDecay /\ last.rating > MIN_RATING_AFTER_DECAY * RS) =>
        /\ last.earlier_out <= last.out
        /\ last.out <= last.rating
        /\ last.earlier_out >= MIN_RATING_AFTER_DECAY * RS

\* a rating above the floor decayed for the later date, and down to the floor
\* for the earlier one
C18_Witness ==
    /\ IsDecay
    /\ last.rating > MIN_RATING_AFTER_DECAY * RS
    /\ last.earlier_out = MIN_RATING_AFTER_DECAY * RS
    /\ last.earlier_out < last.out
    /\ last.out < last.rating

\* ------------------------------------------------- claims on rating reads
\* C19: whenever the engine is up, for every stored player and every surface
\* (or none), get_rating returns at most the stored rating it resolves to
C19_DecayNeverRaises ==
    (engine = "up" /\ Numeric(ratings)) =>
        \A player \in DOMAIN ratings : \A surface \in Surfaces \cup {NoSurface} :
            get_rating(ratings, last_match_dates, player, surface, now)
                <= BaseRating(ratings, player, surface)

\* the bonus the claim gives a player: surface_advantage * 0.5 when the player
\* has an entry for the surface and the opponent has none
BonusOf(player, opponent, surface) ==
    IF /\ player \in DOMAIN ratings /\ surface \in DOMAIN ratings[player]
       /\ ~(opponent \in DOMAIN ratings /\ surface \in DOMAIN ratings[opponent])
    THEN (DEFAULT_SURFACE_ADVANTAGE * RS) \div 2
    ELSE 0

\* C20: in every reachable rating state, for every pair of players (known or
\* not) and every surface, the ratings predict_match computes the
\* probabilities from are the players' decayed ratings, plus
\* surface_advantage * 0.5 for a player exactly when that player has an entry
\* for the surface and the opponent has none
C20_BonusToTheOnlySpecialist ==
    \A p1 \in Players \cup {Unknown}, p2 \in Players \cup {Unknown}, s \in Surfaces :
        LET e == effective_ratings(ratings, last_match_dates, p1, p2, s, now)
            r1 == get_rating(ratings, last_match_dates, p1, s, now) + BonusOf(p1, p2, s)
            r2 == get_rating(ratings, last_match_dates, p2, s, now) + BonusOf(p2, p1, s)
        IN  /\ e = <<r1, r2>>
            /\ predict_match(ratings, last_match_dates, p1, p2, s, now)[1]
                   = _calculate_expected_score(r1, r2)

\* a match has been applied, and on one surface there are a pair where only
\* the first player has an entry, a pair where only the second has, a pair
\* where both have and a pair where neither has
C20_Witness ==
    /\ IsUpdate
    /\ \E s \in Surfaces :
        /\ \E p1 \in Players, p2 \in Players :
              BonusOf(p1, p2, s) > 0 /\ BonusOf(p2, p1, s) = 0
        /\ \E p1 \in Players, p2 \in Players \cup {Unknown} :
              /\ p1 # p2
              /\ p1 \in DOMAIN ratings /\ ~(s \in DOMAIN ratings[p1])
              /\ ~(p2 \in DOMAIN ratings /\ s \in DOMAIN ratings[p2])
        /\ \E p1 \in Players, p2 \in Players :
              /\ p1 # p2
              /\ p1 \in DOMAIN ratings /\ s \in DOMAIN ratings[p1]
              /\ p2 \in DOMAIN ratings /\ s \in DOMAIN ratings[p2]

\* C21: in every reachable rating state, for every pair of players and every
\* surface, the MatchPrediction carries the two decayed ratings and the
\* adjustment applied to that prediction: surface_advantage * 0.5 when one
\* side received the bonus, none when neither side did
C21_PredictionCarriesAppliedAdjustment ==
    \A p1 \in Players \cup {Unknown}, p2 \in Players \cup {Unknown}, s \in Surfaces :
        LET m == service_predict_match(ratings, last_match_dates, p1, p2, s, now)
        IN  /\ m.player1_rating = get_rating(ratings, last_match_dates, p1, s, now)
            /\ m.player2_rating = get_rating(ratings, last_match_dates, p2, s, now)
            /\ m.surface_adjustment = BonusOf(p1, p2, s) + BonusOf(p2, p1, s)

\* ------------------------------------------------- claims on score inputs
\* the score is missing, empty, no string, or has a token that is not a
\* well-formed 'games-games' set
Malformed(score) == ~WellFormed(score)

\* C22: an update_ratings call whose winner score is missing, empty, of the
\* wrong type or holds a token that is not a well-formed 'games-games' set
\* uses the multiplier 1.0
C22_MalformedScoreIsNeutral ==
    (IsUpdate /\ Malformed(last.winner_score)) => last.out.sets_multiplier = 10

\* ----------------------------------------------- claims on the converter
IsToProbability == bets.op = "to_probability"
IsFromProbability == bets.op = "from_probability"
IsEdge == bets.op = "calculate_betting_edge"

\* odds the claim calls invalid: decimal odds <= 0, American odds = 0
InvalidOdds(odds, odds_format) ==
    IF odds_format = "decimal" THEN odds <= 0 ELSE odds = 0

\* C23: decimal_to_probability raises for odds <= 0, american_to_probability
\* for odds = 0, probability_to_decimal and probability_to_american for a
\* probability outside (0, 1), and calculate_betting_edge on a quote with such
\* odds ends in that error and returns no edge
C23_InvalidOddsAreRaised ==
    /\ (IsToProbability /\ InvalidOdds(bets.odds, bets.odds_format)) =>
            bets.out = Raises("ValueError")
    /\ (IsFromProbability /\ (bets.probability <= 0 \/ bets.probability >= PS)) =>
            bets.out = Raises("ValueError")
    /\ (IsEdge /\ (\/ InvalidOdds(bets.player1_odds, bets.odds_format)
                   \/ InvalidOdds(bets.player2_odds, bets.odds_format))) =>
            bets.out = Raises("ValueError")

\* an edge was asked for American odds of which only the second is 0
C23_Witness ==
    /\ IsEdge /\ bets.odds_format = "american"
    /\ bets.player1_odds > 0 /\ bets.player2_odds = 0
    /\ bets.out.raises = "ValueError"

\* the error the fixed point leaves in an American round trip: 0.0001
Tolerance == PS \div 10^4

\* C24: for every probability p in (0, 1) the converter accepts p, and reads
\* back from the odds it returns a probability equal to p up to rounding: for
\* American odds within 0.0001, for decimal odds (kept to 1/100) within
\* p / (odds - 1/100)
C24_ConversionsAreInverse ==
    (IsFromProbability /\ 0 < bets.probability /\ bets.probability < PS) =>
        /\ bets.out.raises = "none"
        /\ bets.back.raises = "none"
        /\ IF bets.odds_format = "american"
           THEN /\ bets.back.value - bets.probability <= Tolerance
                /\ bets.probability - bets.back.value <= Tolerance
           ELSE /\ bets.back.value >= bets.probability
                /\ (bets.back.value - bets.probability) * (bets.out.value - 1)
                       <= bets.probability

\* the probability 0.5 went to American odds -100 and back
C24_Witness ==
    /\ IsFromProbability /\ bets.odds_format = "american"
    /\ 2 * bets.probability = PS
    /\ bets.out.value = 0 - 100 * OS
    /\ bets.back.value = bets.probability

\* the decimal odds that pay what the American odds pay
EquivalentDecimal(odds) == probability_to_decimal(american_to_probability(odds))

\* C26: for a quote in American format calculate_betting_edge returns, for
\* each player, the expected value and the recommendation it returns for the
\* equivalent decimal odds
C26_ExpectedValueFromDecimalOdds ==
    (IsEdge /\ bets.odds_format = "american" /\ bets.out.raises = "none") =>
        LET decimal == calculate_betting_edge(ratings, last_match_dates, now,
                           bets.player1, bets.player2,
                           EquivalentDecimal(bets.player1_odds),
                           EquivalentDecimal(bets.player2_odds),
                           bets.surface, "decimal")
        IN  \A side \in {"player1", "player2"} :
                /\ bets.out.value[side].expected_value = decimal[side].expected_value
                /\ bets.out.value[side].recommendation = decimal[side].recommendation

\* ------------------------------------------- claims on best-bet selection
\* C25: _select_best_bet_per_match applied to the list it returned returns
\* that list again, for every list of bets get_todays_value_bets selects from
C25_SelectionIsIdempotent ==
    TodaysReturned =>
        _select_best_bet_per_match(bets.out.best) = bets.out.best

\* the selection ran on bets of two matches, two of them with equal expected
\* value for one match, and dropped some
C25_Witness ==
    /\ TodaysReturned
    /\ Len(bets.out.best) = 2
    /\ Len(bets.out.next_24h_bets) > 2
    /\ \E i \in 1..Len(bets.out.next_24h_bets) :
       \E j \in 1..Len(bets.out.next_24h_bets) :
            /\ i < j
            /\ match_key(bets.out.next_24h_bets[i]) = match_key(bets.out.next_24h_bets[j])
            /\ bets.out.next_24h_bets[i].expected_value_percentage
                   = bets.out.next_24h_bets[j].expected_value_percentage

\* ---------------------------------------------------------------- C27
IsDriver == last.op \in {"train_model_at_startup", "update_ratings_from_matches"}

\* C27: every driver feeds update_ratings in non-decreasing order of the
\* match dates, each row with its own date, so that no last match date moves
\* back during a run.
C27_DriversFeedInDateOrder ==
    IsDriver =>
        \A j \in 1..Len(last.calls) :
            /\ last.calls[j].match_date = last.calls[j].row.tourney_date
            /\ \A i \in 1..j :
                last.calls[i].row.tourney_date <= last.calls[j].row.tourney_date
            /\ \A player \in {last.calls[j].row.winner, last.calls[j].row.loser} :
                player \in DOMAIN last.calls[j].before =>
                    last.calls[j].before[player] <= last.calls[j].match_date

\* ---------------------------------------------------------------- C29
\* the update_ratings calls that fed the row to the ratings of the engine
TimesApplied(row) == Cardinality({j \in 1..Len(fed) : fed[j].row = row})

\* C29: after a training run every row the data files held at the run has been
\* applied to the ratings exactly once, whenever it arrived and whatever its date.
C29_EveryRowAppliedOnce ==
    last.op = "train_model_at_startup" =>
        \A i \in 1..Len(last.matches_df) : TimesApplied(last.matches_df[i]) = 1

\* ---------------------------------------------------------------- C28
\* C28: a request that is answered while update_ratings is running sees the
\* ratings and last match dates of before the match or of after it, never a
\* state between the two.
C28_ReadsSeeWholeMatches ==
    (bets.op = "predict_match" /\ bets.during # NoCall) =>
        \/ bets.seen = bets.during.before
        \/ bets.seen = [ratings |-> bets.during.out.ratings,
                        last_match_dates |-> bets.during.out.last_match_dates]

\* ---------------------------------------------------------------- C30
IsResults == last.op = "get_results_by_date"

\* the provider failed, and not with the answer expected for a future date
GenuineError(outcome) ==
    outcome.kind = "raises" /\ ~(last.is_future_date /\ outcome.text = "404")

\* C30: the coordinator calls the providers in order up to the first one that
\* returns matches and returns those; it raises only if every provider failed
\* with a genuine error; if none returned matches and some provider answered
\* with legitimately empty data it returns an empty list.
C30_RaisesOnlyIfAllFailed ==
    IsResults =>
        LET providers == last.providers
            Answered(i) == providers[i].kind = "matches"
        IN  /\ \A i \in 1..Len(providers) :
                (Answered(i) /\ \A j \in 1..(i - 1) : ~Answered(j)) =>
                    /\ last.out.matches
                    /\ last.out.called = i
                    /\ last.out._last_used_provider = i
                    /\ last.out.raises = "none"
            /\ last.out.raises # "none" =>
                \A i \in 1..Len(providers) : GenuineError(providers[i])
            /\ ((\A i \in 1..Len(providers) : ~Answered(i))
                    /\ \E i \in 1..Len(providers) : ~GenuineError(providers[i])) =>
                (last.out.raises = "none" /\ ~last.out.matches)

====
